---- MODULE Spec2Model ----
(***************************************************************************)
(* A model of ls-replacement (src/main.py): the width-aware rendering of   *)
(* one listing row.  Strings are TLA+ strings holding the display text;    *)
(* colorize_string only wraps its argument in escape sequences of zero     *)
(* display width, so a printed string counts Len(string) columns.          *)
(***************************************************************************)
EXTENDS Integers, Sequences, FiniteSets, TLC

(***************************************************************************)
(* Bounds of the model.                                                    *)
(***************************************************************************)
MaxPreLen == 3
MaxPostLen == 3
MaxStrLen == 5
MaxSpace == 16
MaxNeg == 2
MaxFiles == 2
MaxNest == 3

(***************************************************************************)
(* State.  The first group is the listing program (Files, File); the       *)
(* second is a call of print_finite on its own; the third a call of        *)
(* File.get_type on its own.                                               *)
(***************************************************************************)
VARIABLES
    dirents,      \* os.listdir("."): the names of the listed directory
    files,        \* Files.files
    has_gitrepo,  \* Files.has_gitrepo
    columns,      \* print_files: the terminal width
    pc,           \* position of the program
    pos,          \* index of the next name to construct or row to print
    rows          \* the rows printed so far

VARIABLES
    arg_prefix,       \* argument of print_finite
    arg_postfix,      \* argument of print_finite
    arg_var_string,   \* argument of print_finite
    arg_spaceleft,    \* argument of print_finite
    printed,          \* the rendering of the last call
    widerShown        \* characters of var_string shown by the call with one column more

VARIABLES
    st_name,      \* File.name before get_type
    st_modetype,  \* oct(st_mode)[2:-3]
    st_owner,     \* owner digit of oct(st_mode)[-3:]
    st_real,      \* type of the File of the symlink's realpath ("none": not constructed)
    classified    \* File.type and File.name after get_type

progVars == <<dirents, files, has_gitrepo, columns, pc, pos, rows>>
finiteVars == <<arg_prefix, arg_postfix, arg_var_string, arg_spaceleft, printed, widerShown>>
typeVars == <<st_name, st_modetype, st_owner, st_real, classified>>
vars == <<progVars, finiteVars, typeVars>>

(***************************************************************************)
(* Python primitives used by the code.                                     *)
(***************************************************************************)

\* `for i in range(n): print(' ', end='')`: n spaces, none when n <= 0.
RECURSIVE Spaces(_)
Spaces(n) == IF n <= 0 THEN "" ELSE " " \o Spaces(n - 1)

\* Python's s[:k]: the first k characters, or all but the last -k when k < 0.
SliceTo(s, k) ==
    IF k >= 0
    THEN SubSeq(s, 1, IF k < Len(s) THEN k ELSE Len(s))
    ELSE SubSeq(s, 1, IF Len(s) + k > 0 THEN Len(s) + k ELSE 0)

\* Python's s[k:] for k >= 0.
SliceFrom(s, k) == SubSeq(s, (IF k < Len(s) THEN k ELSE Len(s)) + 1, Len(s))

\* Python's s[-k:] for k > 0: the last k characters (all of s when shorter).
LastChars(s, k) == IF Len(s) <= k THEN s ELSE SubSeq(s, Len(s) - k + 1, Len(s))

(***************************************************************************)
(* print_finite (src/main.py 262-298), one definition per branch.  Each    *)
(* rendering is a record: the text printed, the branch taken, the part of  *)
(* var_string that is shown, and pad, the argument of range() in the       *)
(* branch's padding loop (0 where the branch has no loop).                 *)
(***************************************************************************)

\* line 268: empty var_string and room for prefix, one space and postfix.
EmptyFits(prefix, postfix, var_string, spaceleft) ==
    var_string = "" /\ Len(prefix) + Len(postfix) + 1 <= spaceleft

\* (variant: the padding loop counts the reserved space twice)
EmptyRenderShort(prefix, postfix, var_string, spaceleft) ==
    [branch |-> "empty",
     out    |-> prefix \o Spaces(spaceleft - (Len(prefix) + Len(postfix) + 1)) \o postfix,
     shown  |-> "",
     pad    |-> spaceleft - (Len(prefix) + Len(postfix) + 1)]

\* lines 269-273
EmptyRender(prefix, postfix, var_string, spaceleft) ==
    [branch |-> "empty",
     out    |-> prefix \o Spaces(spaceleft - (Len(prefix) + Len(postfix))) \o postfix,
     shown  |-> "",
     pad    |-> spaceleft - (Len(prefix) + Len(postfix))]

\* (variant: one column too many reserved around the content)
FullFitsTight(prefix, postfix, var_string, spaceleft) ==
    Len(prefix) + Len(var_string) + Len(postfix) + 5 <= spaceleft

\* line 275
FullFits(prefix, postfix, var_string, spaceleft) ==
    Len(prefix) + Len(var_string) + Len(postfix) + 4 <= spaceleft

\* lines 276-280
FullRender(prefix, postfix, var_string, spaceleft) ==
    [branch |-> "full",
     out    |-> prefix \o " (" \o var_string \o ") "
                  \o Spaces(spaceleft - (Len(prefix) + Len(var_string) + Len(postfix) + 4))
                  \o postfix,
     shown  |-> var_string,
     pad    |-> spaceleft - (Len(prefix) + Len(var_string) + Len(postfix) + 4)]

\* (variant: > in place of >=)
NoSpaceStrict(prefix, postfix, spaceleft) ==
    Len(prefix) + Len(postfix) + 6 > spaceleft

\* (variant: postlen left out of the test)
NoSpacePrefixOnly(prefix, postfix, spaceleft) ==
    Len(prefix) + 6 >= spaceleft

\* line 282
NoSpace(prefix, postfix, spaceleft) ==
    Len(prefix) + Len(postfix) + 6 >= spaceleft

\* (variant: the prefix is printed without the test that it fits)
DegradedRenderUnchecked(prefix, postfix, var_string, spaceleft) ==
    [branch |-> "degraded",
     out    |-> IF Len(prefix) + Len(postfix) + 1 <= spaceleft
                THEN prefix \o Spaces(spaceleft - (Len(prefix) + Len(postfix))) \o postfix
                ELSE prefix,
     shown  |-> "",
     pad    |-> IF Len(prefix) + Len(postfix) + 1 <= spaceleft
                THEN spaceleft - (Len(prefix) + Len(postfix))
                ELSE 0]

\* lines 283-295
DegradedRender(prefix, postfix, var_string, spaceleft) ==
    [branch |-> "degraded",
     out    |-> IF Len(prefix) + Len(postfix) + 1 <= spaceleft
                THEN prefix \o Spaces(spaceleft - (Len(prefix) + Len(postfix))) \o postfix
                ELSE IF Len(prefix) <= spaceleft
                THEN prefix
                ELSE IF Len(postfix) <= spaceleft
                THEN Spaces(spaceleft - Len(prefix)) \o postfix
                ELSE "",
     shown  |-> "",
     pad    |-> IF Len(prefix) + Len(postfix) + 1 <= spaceleft
                THEN spaceleft - (Len(prefix) + Len(postfix))
                ELSE IF Len(prefix) <= spaceleft
                THEN 0
                ELSE IF Len(postfix) <= spaceleft
                THEN spaceleft - Len(prefix)
                ELSE 0]

\* (variant: one content character too many kept)
TruncatedRenderWide(prefix, postfix, var_string, spaceleft) ==
    LET cut == SliceTo(var_string, spaceleft - (Len(prefix) + Len(postfix) + 5))
    IN  [branch |-> "truncated",
         out    |-> prefix \o " (" \o cut \o "..) " \o postfix,
         shown  |-> cut,
         pad    |-> 0]

\* lines 297-298
TruncatedRender(prefix, postfix, var_string, spaceleft) ==
    LET cut == SliceTo(var_string, spaceleft - (Len(prefix) + Len(postfix) + 6))
    IN  [branch |-> "truncated",
         out    |-> prefix \o " (" \o cut \o "..) " \o postfix,
         shown  |-> cut,
         pad    |-> 0]

\* lines 262-298
print_finite(prefix, postfix, var_string, spaceleft) ==
    IF EmptyFits(prefix, postfix, var_string, spaceleft)
    THEN EmptyRender(prefix, postfix, var_string, spaceleft)
    ELSE IF FullFits(prefix, postfix, var_string, spaceleft)
    THEN FullRender(prefix, postfix, var_string, spaceleft)
    ELSE IF NoSpace(prefix, postfix, spaceleft)
    THEN DegradedRender(prefix, postfix, var_string, spaceleft)
    ELSE TruncatedRender(prefix, postfix, var_string, spaceleft)

\* Nothing printed yet.
NoRender == [branch |-> "none", out |-> "", shown |-> "", pad |-> 0]

(***************************************************************************)
(* Config (src/main.py 20-42)                                              *)
(***************************************************************************)
print_ownerpermissions == FALSE
print_grouppermissions == FALSE
print_ottherpermissions == FALSE
print_size == FALSE
print_git == TRUE
print_aftertext_flag == TRUE
noprint_files == {".DS_Store", "__pycache__/"}

(***************************************************************************)
(* More Python primitives: str(n), string order, sorted lists.             *)
(***************************************************************************)
Digits == "0123456789"

\* str(n) for n >= 0
RECURSIVE Str(_)
Str(n) ==
    IF n < 10 THEN SubSeq(Digits, n + 1, n + 1)
    ELSE Str(n \div 10) \o SubSeq(Digits, (n % 10) + 1, (n % 10) + 1)

\* The characters of the model's names in code point order.
AsciiOrder == "\t -./0123456789ABCDEFGHIJKLMNOPQRSTUVWXYZ_abcdefghijklmnopqrstuvwxyz"

Ord(c) == CHOOSE i \in 1..Len(AsciiOrder) : SubSeq(AsciiOrder, i, i) = c

\* a < b on str
RECURSIVE StrLess(_, _)
StrLess(a, b) ==
    IF b = "" THEN FALSE
    ELSE IF a = "" THEN TRUE
    ELSE IF SubSeq(a, 1, 1) = SubSeq(b, 1, 1) THEN StrLess(Tail(a), Tail(b))
    ELSE Ord(SubSeq(a, 1, 1)) < Ord(SubSeq(b, 1, 1))

\* list.sort() on a list of distinct names
RECURSIVE Sorted(_)
Sorted(names) ==
    IF names = <<>> THEN <<>>
    ELSE LET least == CHOOSE i \in 1..Len(names) :
                          \A j \in 1..Len(names) : j = i \/ StrLess(names[i], names[j])
         IN  <<names[least]>>
               \o Sorted([j \in 1..(Len(names) - 1) |->
                             IF j < least THEN names[j] ELSE names[j + 1]])

\* line.strip('\t')
RECURSIVE StripTabs(_)
StripTabs(line) ==
    IF line = "" THEN ""
    ELSE IF SubSeq(line, 1, 1) = "\t" THEN StripTabs(Tail(line))
    ELSE IF SubSeq(line, Len(line), Len(line)) = "\t"
    THEN StripTabs(SubSeq(line, 1, Len(line) - 1))
    ELSE line

(***************************************************************************)
(* The file system the program reads.  An entry is what os.lstat,          *)
(* os.listdir, os.readlink and open give for one path: modetype is         *)
(* oct(st_mode)[2:-3] (file type digits and the setuid/setgid/sticky       *)
(* digit), perm the three permission digits.                               *)
(***************************************************************************)
Entry(name, modetype, perm, st_size, children, lines, target) ==
    [name |-> name, modetype |-> modetype, perm |-> perm, st_size |-> st_size,
     children |-> children, lines |-> lines, target |-> target]

\* Entries that the listed directory may hold.
CwdCatalog ==
    { Entry(".git", "40", <<7, 5, 5>>, 4096, <<"config", "HEAD">>, <<>>, ""),
      Entry("src", "40", <<7, 5, 5>>, 4096, <<"b.txt", "a.txt", ".git">>, <<>>, ""),
      Entry("tmp", "41", <<7, 7, 7>>, 4096, <<"x">>, <<>>, ""),
      Entry("README", "100", <<6, 4, 4>>, 1500, <<>>, <<"ls replacement", "\tusage", "more">>, ""),
      Entry("new.txt", "100", <<6, 4, 4>>, 0, <<>>, <<>>, ""),
      Entry("main.c", "100", <<6, 4, 4>>, 30, <<>>, <<"int main(void) { return 0; }">>, ""),
      Entry("run", "100", <<7, 5, 5>>, 2500, <<>>, <<"echo">>, ""),
      Entry(".DS_Store", "100", <<6, 4, 4>>, 12, <<>>, <<"x">>, ""),
      Entry("up", "120", <<7, 7, 7>>, 7, <<>>, <<>>, "../docs"),
      Entry(".rc", "120", <<7, 7, 7>>, 12, <<>>, <<>>, "../notes.txt"),
      Entry("self", "120", <<7, 7, 7>>, 4, <<>>, <<>>, "self"),
      Entry("gone", "120", <<7, 7, 7>>, 26, <<>>, <<>>, "../away/no-such-target.txt") }

\* Entries outside the listed directory that its symlinks point to.
Outside ==
    { Entry("../docs", "40", <<7, 5, 5>>, 4096, <<"b.txt", "a.txt">>, <<>>, ""),
      Entry("../notes.txt", "100", <<6, 4, 4>>, 4, <<>>, <<"a b">>, "") }

CwdNames == {e.name : e \in CwdCatalog}

\* A path without its trailing '/'.
Path(name) ==
    IF name # "" /\ SubSeq(name, Len(name), Len(name)) = "/"
    THEN SubSeq(name, 1, Len(name) - 1)
    ELSE name

\* whether os.lstat(path) succeeds, cwd being the names in the listed directory
Exists(path, cwd) ==
    \/ Path(path) \in cwd
    \/ \E e \in Outside : e.name = Path(path)

Inode(path) == CHOOSE e \in CwdCatalog \cup Outside : e.name = Path(path)

\* os.path.relpath(os.path.realpath(path)): symlinks are followed to the end;
\* a missing path or a member of a symlink loop is returned as it is.
RECURSIVE realpath(_, _, _)
realpath(path, cwd, seen) ==
    IF ~Exists(path, cwd) THEN path
    ELSE IF Inode(path).modetype # "120" THEN path
    ELSE IF path \in seen THEN path
    ELSE realpath(Inode(path).target, cwd, seen \cup {path})

(***************************************************************************)
(* class File: construction (src/main.py 95-199)                           *)
(***************************************************************************)

\* get_permissions.index_permissions, lines 110-127
index_permissions(number) ==
    CASE number = 0 -> [read |-> FALSE, write |-> FALSE, exec |-> FALSE]
      [] number = 1 -> [read |-> FALSE, write |-> FALSE, exec |-> TRUE]
      [] number = 2 -> [read |-> TRUE, write |-> FALSE, exec |-> FALSE]
      [] number = 3 -> [read |-> FALSE, write |-> TRUE, exec |-> TRUE]
      [] number = 4 -> [read |-> TRUE, write |-> FALSE, exec |-> FALSE]
      [] number = 5 -> [read |-> TRUE, write |-> FALSE, exec |-> TRUE]
      [] number = 6 -> [read |-> TRUE, write |-> TRUE, exec |-> FALSE]
      [] number = 7 -> [read |-> TRUE, write |-> TRUE, exec |-> TRUE]
      [] OTHER -> [read |-> FALSE, write |-> FALSE, exec |-> FALSE]

\* get_permissions, lines 130-135
get_permissions(perm) ==
    [owner |-> index_permissions(perm[1]),
     group |-> index_permissions(perm[2]),
     others |-> index_permissions(perm[3])]

\* get_type, lines 161-168: the type by name of what is no directory,
\* executable or symlink
TypeByName(name) ==
    IF name \in {"README", "readme"} \/ LastChars(name, 2) = "md"
         \/ LastChars(name, 3) = "txt"
    THEN "text"
    ELSE IF LastChars(name, 2) \in {".c"} \/ LastChars(name, 3) \in {".py"}
    THEN "program"
    ELSE IF name \in {"Makefile", "makefile"}
    THEN "makefile"
    ELSE "file"

\* get_type, lines 170-171: the test on the name, made last and on every file
IsDotName(name) ==
    SubSeq(name, 1, 1) = "." /\ SubSeq(name, 2, 2) # "."

\* get_type, lines 137-171.  realtype is the type of File(self.realpath), or
\* "none" when its construction raised (self.realfile = None).  The result is
\* self.type and self.name.
get_type(name, modetype, permissions, realtype) ==
    LET first ==
            IF modetype \in {"040", "40"}
            THEN [type |-> "directory", name |-> name \o "/"]
            ELSE IF modetype = "100" /\ permissions.owner.exec
            THEN [type |-> "executable", name |-> name]
            ELSE IF modetype = "120"
            THEN [type |-> "symlink",
                  name |-> IF realtype = "directory" THEN name \o "/" ELSE name]
            ELSE [type |-> TypeByName(name), name |-> name]
    IN  IF IsDotName(first.name)
        THEN [type |-> "dotfile", name |-> first.name]
        ELSE first

Units == <<"B", "KB", "MB", "GB", "TB", "PB", "EB", "ZB", "YB">>

\* get_size.human_size, lines 176-188: size is divided by 1000 while it is above
\* 1000 and formatted with no decimals ('{:.0f}' rounds half to even).
RECURSIVE human_order(_, _)
human_order(size, scale) ==
    IF size > 1000 * scale THEN 1 + human_order(size, 1000 * scale) ELSE 0

RECURSIVE Power1000(_)
Power1000(order) == IF order = 0 THEN 1 ELSE 1000 * Power1000(order - 1)

human_size(size) ==
    LET order == human_order(size, 1)
        scale == Power1000(order)
        q == size \div scale
        r == size % scale
        rounded == IF 2 * r > scale THEN q + 1
                   ELSE IF 2 * r = scale THEN q + (q % 2)
                   ELSE q
    IN  Str(rounded) \o " " \o Units[order + 1]

\* get_size, lines 190-199: the digits of human_size, and what follows the
\* space after the last digit.
RECURSIVE DigitsOf(_)
DigitsOf(s) ==
    IF s = "" THEN ""
    ELSE (IF \E d \in 1..10 : SubSeq(Digits, d, d) = SubSeq(s, 1, 1) \/ SubSeq(s, 1, 1) = "."
          THEN SubSeq(s, 1, 1) ELSE "")
           \o DigitsOf(SubSeq(s, 2, Len(s)))

get_size(st_size) ==
    LET size_and_postfix == human_size(st_size)
        isnum(i) == \/ \E d \in 1..10 : SubSeq(Digits, d, d) = SubSeq(size_and_postfix, i, i)
                    \/ SubSeq(size_and_postfix, i, i) = "."
        nums == {i \in 1..Len(size_and_postfix) : isnum(i)}
        \* lastnum is 0-based in the code
        lastnum == IF nums = {} THEN 0
                   ELSE (CHOOSE i \in nums : \A j \in nums : j <= i) - 1
    IN  [size |-> DigitsOf(size_and_postfix),
         size_postfix |-> SliceFrom(size_and_postfix, lastnum + 2)]

\* File(name), lines 95-101, with the File of a symlink's realpath nested in
\* it (get_type, lines 151-159).  The result is <<>> when the construction
\* raises: os.lstat fails, or the nesting exceeds what the interpreter's
\* recursion limit allows (RecursionError).
RECURSIVE NewFile(_, _, _)
NewFile(name, cwd, depth) ==
    IF depth > MaxNest \/ ~Exists(name, cwd) THEN <<>>
    ELSE
    LET st == Inode(name)
        permissions == get_permissions(st.perm)
        is_symlink == st.modetype = "120"
        rpath == IF is_symlink THEN realpath(name, cwd, {}) ELSE ""
        realfile == IF is_symlink THEN NewFile(rpath, cwd, depth + 1) ELSE <<>>
        typed == get_type(name, st.modetype, permissions,
                          IF Len(realfile) = 0 THEN "none" ELSE realfile[1].type)
        sz == get_size(st.st_size)
    IN  <<[name |-> typed.name, type |-> typed.type,
           st_size |-> st.st_size, modetype |-> st.modetype,
           permissions |-> permissions,
           realpath |-> rpath, realfile |-> realfile,
           size |-> sz.size, size_postfix |-> sz.size_postfix,
           gitstatus |-> "  "]>>

(***************************************************************************)
(* class File: printing (src/main.py 207-387).  What is printed is the     *)
(* display text; a raised exception is the field raised.                   *)
(***************************************************************************)

\* print_gitstatus, lines 207-224: one styled character per character
print_gitstatus(file) == file.gitstatus

\* print_name, lines 226-243
print_name(file) == file.name

\* print_size, lines 245-255
print_size_text(file) ==
    Spaces(3 - Len(file.size)) \o file.size
      \o (IF Len(file.size_postfix) = 1 THEN file.size_postfix \o " "
          ELSE file.size_postfix)

\* __print_permissions, lines 366-378
print_permissions(permissions) ==
    (IF permissions.read THEN "r" ELSE "-")
      \o (IF permissions.write THEN "w" ELSE "-")
      \o (IF permissions.exec THEN "x" ELSE "-")

\* ', '.join / ' '.join of a list of strings
RECURSIVE Join(_, _)
Join(sep, strings) ==
    IF Len(strings) = 0 THEN ""
    ELSE IF Len(strings) = 1 THEN strings[1]
    ELSE strings[1] \o sep \o Join(sep, Tail(strings))

\* `pattern in text`
Contains(text, pattern) ==
    \E i \in 1..Len(text) :
        i + Len(pattern) - 1 <= Len(text)
          /\ SubSeq(text, i, i + Len(pattern) - 1) = pattern

\* lines 305-309: the names that do not start with '.'
Visible(contents) == SelectSeq(contents, LAMBDA filename : SubSeq(filename, 1, 1) # ".")

\* lines 315-318 and 356-359
Counted(n, noun) ==
    IF n = 1 THEN "[" \o Str(n) \o " " \o noun \o "]"
    ELSE "[" \o Str(n) \o " " \o noun \o "s]"

\* whether open(name) and the reading of its lines succeed: the path is
\* followed through symlinks, must exist and be no directory, and must be
\* readable and decodable (env.open_ok).
CanRead(name, cwd, env) ==
    LET target == realpath(name, cwd, {})
    IN  /\ SubSeq(name, Len(name), Len(name)) # "/"
        /\ Exists(target, cwd)
        /\ Inode(target).modetype \notin {"40", "41", "120"}
        /\ env.open_ok

\* The segment printed by one call of print_finite, with the call's arguments.
Segment(before, prefix, postfix, var_string, spaceleft) ==
    LET r == print_finite(prefix, postfix, var_string, spaceleft)
    IN  [out |-> before \o r.out, raised |-> FALSE,
         calls |-> <<[prefix |-> prefix, postfix |-> postfix, var_string |-> var_string,
                      spaceleft |-> spaceleft, branch |-> r.branch]>>]

\* print_aftertext, lines 257-364.  spaceleft is the argument; the space
\* printed first is counted at once (lines 259-260).
RECURSIVE print_aftertext(_, _, _, _)
print_aftertext(file, spaceleft, cwd, env) ==
    IF file.type = "directory"
    THEN \* lines 300-322
         IF ~env.listdir_ok
         THEN [out |-> " ", raised |-> TRUE, calls |-> <<>>]
         ELSE LET contents == Sorted(Inode(file.name).children)
                  shown == Visible(contents)
                  badge == \E i \in 1..Len(contents) : contents[i] = ".git"
              IN  Segment(IF badge THEN " (git repo) " ELSE " ",
                          "[" \o file.size \o file.size_postfix \o "]",
                          Counted(Len(shown), "file"),
                          Join(", ", shown),
                          IF badge THEN spaceleft - 1 - 11 ELSE spaceleft - 1)
    ELSE IF file.type = "symlink"
    THEN \* lines 324-332
         IF Len(file.realfile) # 0
         THEN LET real == file.realfile[1]
                  rest == print_aftertext(real, spaceleft - 1 - 3 - Len(real.name), cwd, env)
              IN  [out |-> " -> " \o print_name(real) \o rest.out,
                   raised |-> rest.raised, calls |-> rest.calls]
         ELSE [out |-> " -> " \o file.realpath, raised |-> FALSE, calls |-> <<>>]
    ELSE \* lines 334-364
         LET lines == Inode(realpath(file.name, cwd, {})).lines
             main == /\ file.type = "program"
                     /\ LastChars(file.name, 2) = ".c"
                     /\ env.grep_ok
                     /\ CanRead(file.name, cwd, env)
                     /\ \E i \in 1..Len(lines) : Contains(lines[i], "int main(")
             before == IF main THEN " (main) " ELSE " "
             left == IF main THEN spaceleft - 1 - 7 ELSE spaceleft - 1
         IN  IF file.st_size = 0
             THEN Segment(before, "(empty)", "", "", left)
             ELSE IF ~CanRead(file.name, cwd, env)
             THEN [out |-> before, raised |-> FALSE, calls |-> <<>>]
             ELSE Segment(before,
                          "[" \o file.size \o file.size_postfix \o "]",
                          Counted(Len(lines), "line"),
                          Join(" ", [i \in 1..Len(lines) |-> StripTabs(lines[i])]),
                          left)

(***************************************************************************)
(* class Files (src/main.py 390-500)                                       *)
(***************************************************************************)

\* print_files, lines 467-500: one row.  budget is the row's initial
\* spaceleft; skipped is the `continue` of line 470.
PrintRow(file, cols, gitrepo, cwd, env) ==
    LET perms == (IF print_ownerpermissions
                  THEN print_permissions(file.permissions.owner) ELSE "")
                   \o (IF print_grouppermissions
                       THEN print_permissions(file.permissions.group) ELSE "")
                   \o (IF print_ottherpermissions
                       THEN print_permissions(file.permissions.others) ELSE "")
                   \o (IF print_ottherpermissions \/ print_grouppermissions
                            \/ print_ownerpermissions
                       THEN " " ELSE "")
        left1 == cols - Len(perms)
        sizes == IF print_size THEN print_size_text(file) \o " " ELSE ""
        left2 == IF print_size THEN left1 - 6 ELSE left1
        git == IF print_git /\ gitrepo THEN print_gitstatus(file) \o " " ELSE ""
        left3 == IF print_git /\ gitrepo THEN left2 - 3 ELSE left2
        left4 == left3 - Len(file.name)
        after == IF print_aftertext_flag
                 THEN print_aftertext(file, left4, cwd, env)
                 ELSE [out |-> "", raised |-> FALSE, calls |-> <<>>]
    IN  IF file.name \in noprint_files
        THEN [skipped |-> TRUE, budget |-> cols, out |-> "", raised |-> FALSE,
              calls |-> <<>>, file |-> file]
        ELSE [skipped |-> FALSE, budget |-> cols,
              out |-> perms \o sizes \o git \o print_name(file) \o after.out,
              raised |-> after.raised, calls |-> after.calls, file |-> file]

\* The states of the parts that a specification leaves out.
ProgIdle ==
    /\ dirents = <<>> /\ files = <<>> /\ has_gitrepo = FALSE
    /\ columns = 0 /\ pc = "off" /\ pos = 0 /\ rows = <<>>

FiniteIdle ==
    /\ arg_prefix = "" /\ arg_postfix = "" /\ arg_var_string = ""
    /\ arg_spaceleft = 0 /\ printed = NoRender /\ widerShown = -1

TypeIdle ==
    /\ st_name = "" /\ st_modetype = "" /\ st_owner = 0 /\ st_real = "none"
    /\ classified = [type |-> "none", name |-> ""]

\* line 464: the width when the terminal cannot be asked
FallbackColumns == 80

\* Widths the terminal may report (line 461).
Widths == {10, 20, 40}

\* What os.listdir(".") may return: up to MaxFiles distinct names.
Listings ==
    {l \in UNION {[1..n -> CwdNames] : n \in 0..MaxFiles} :
        \A i, j \in 1..Len(l) : i # j => l[i] # l[j]}

\* What the environment does to the reads of one row.
Envs == [listdir_ok : BOOLEAN, open_ok : BOOLEAN, grep_ok : BOOLEAN]

Cwd == {dirents[i] : i \in 1..Len(dirents)}

\* Files('.') begins, lines 392-395
Init ==
    /\ dirents \in Listings
    /\ files = <<>>
    /\ has_gitrepo = FALSE
    /\ columns = 0
    /\ pc = "init"
    /\ pos = 1
    /\ rows = <<>>
    /\ FiniteIdle
    /\ TypeIdle

\* Files.__init__, lines 397-401: one name of the loop, os.lstat succeeding
AppendFile ==
    /\ pc = "init"
    /\ pos <= Len(dirents)
    /\ has_gitrepo' = (has_gitrepo \/ dirents[pos] = ".git")
    /\ files' = files \o NewFile(dirents[pos], Cwd, 0)
    /\ pos' = pos + 1
    /\ UNCHANGED <<dirents, columns, pc, rows, finiteVars, typeVars>>

\* Files.__init__, line 400: the entry is gone when os.lstat is called; the
\* exception is caught nowhere and ends the program.
AppendFileRaises ==
    /\ pc = "init"
    /\ pos <= Len(dirents)
    /\ has_gitrepo' = (has_gitrepo \/ dirents[pos] = ".git")
    /\ pc' = "raised"
    /\ UNCHANGED <<dirents, files, columns, pos, rows, finiteVars, typeVars>>

\* Files.__init__, line 403: no '.git' among the names
NoGit ==
    /\ pc = "init"
    /\ pos > Len(dirents)
    /\ ~has_gitrepo
    /\ pc' = "print"
    /\ UNCHANGED <<dirents, files, has_gitrepo, columns, pos, rows, finiteVars, typeVars>>

\* initialize_git, lines 407-412: git status fails
InitializeGitFails ==
    /\ pc = "init"
    /\ pos > Len(dirents)
    /\ has_gitrepo
    /\ has_gitrepo' = FALSE
    /\ pc' = "print"
    /\ UNCHANGED <<dirents, files, columns, pos, rows, finiteVars, typeVars>>

\* initialize_git, lines 407-422: every file gets its two status characters;
\* a directory's name ends in '/' and is never among the stripped keys.
InitializeGit ==
    /\ pc = "init"
    /\ pos > Len(dirents)
    /\ has_gitrepo
    /\ \E modified \in SUBSET {files[i].name : i \in 1..Len(files)} :
          files' = [i \in 1..Len(files) |->
                       [files[i] EXCEPT !.gitstatus =
                           IF files[i].name \in modified
                                /\ LastChars(files[i].name, 1) # "/"
                           THEN " M" ELSE "  "]]
    /\ pc' = "print"
    /\ UNCHANGED <<dirents, has_gitrepo, columns, pos, rows, finiteVars, typeVars>>

\* print_files, lines 425-464: the branch and commit lines (every failure is
\* caught, lines 458-459; they are no rows), then the terminal width.
PrintFilesBegin ==
    /\ pc = "print"
    /\ columns' \in Widths \cup {FallbackColumns}
    /\ pc' = "rows"
    /\ pos' = 1
    /\ UNCHANGED <<dirents, files, has_gitrepo, rows, finiteVars, typeVars>>

\* print_files, lines 466-500: the row of files[pos]
PrintOneRow ==
    /\ pc = "rows"
    /\ pos <= Len(files)
    /\ \E env \in Envs :
          LET row == PrintRow(files[pos], columns, has_gitrepo, Cwd, env)
          IN  /\ rows' = Append(rows, row)
              /\ IF row.raised
                 THEN pc' = "raised" /\ pos' = pos
                 ELSE pc' = pc /\ pos' = pos + 1
    /\ UNCHANGED <<dirents, files, has_gitrepo, columns, finiteVars, typeVars>>

\* print_files returns
Finish ==
    /\ pc = "rows"
    /\ pos > Len(files)
    /\ pc' = "done"
    /\ UNCHANGED <<dirents, files, has_gitrepo, columns, pos, rows, finiteVars, typeVars>>

Next ==
    \/ AppendFile
    \/ AppendFileRaises
    \/ NoGit
    \/ InitializeGitFails
    \/ InitializeGit
    \/ PrintFilesBegin
    \/ PrintOneRow
    \/ Finish

Spec == Init /\ [][Next]_vars

(***************************************************************************)
(* print_finite on its own: the arguments are drawn from bounded sets, the *)
(* function is called, and called again with one column less.              *)
(***************************************************************************)
\* The first n characters of the texts the arguments are cut from.
RECURSIVE Letters(_, _)
Letters(alphabet, n) ==
    IF n = 0 THEN ""
    ELSE Letters(alphabet, n - 1)
           \o SubSeq(alphabet, ((n - 1) % Len(alphabet)) + 1, ((n - 1) % Len(alphabet)) + 1)

Prefixes  == {Letters("[1B]", n) : n \in 0..MaxPreLen}
Postfixes == {Letters("<2>", n) : n \in 0..MaxPostLen}
Contents  == {Letters("abcdefgh", n) : n \in 0..MaxStrLen}

FiniteInit ==
    /\ arg_prefix \in Prefixes
    /\ arg_postfix \in Postfixes
    /\ arg_var_string \in Contents
    /\ arg_spaceleft \in (0 - MaxNeg)..MaxSpace
    /\ printed = NoRender
    /\ widerShown = -1
    /\ ProgIdle
    /\ TypeIdle

\* print_finite(prefix, postfix, var_string, spaceleft)
CallPrintFinite ==
    /\ printed.branch = "none"
    /\ printed' = print_finite(arg_prefix, arg_postfix, arg_var_string, arg_spaceleft)
    /\ UNCHANGED <<arg_prefix, arg_postfix, arg_var_string, arg_spaceleft, widerShown,
                 progVars, typeVars>>

\* the same call with the budget decreased by one column
CallNarrower ==
    /\ printed.branch # "none"
    /\ arg_spaceleft > 0 - MaxNeg
    /\ arg_spaceleft' = arg_spaceleft - 1
    /\ widerShown' = Len(printed.shown)
    /\ printed' = print_finite(arg_prefix, arg_postfix, arg_var_string, arg_spaceleft')
    /\ UNCHANGED <<arg_prefix, arg_postfix, arg_var_string, progVars, typeVars>>

FiniteNext ==
    \/ CallPrintFinite
    \/ CallNarrower

SpecFinite == FiniteInit /\ [][FiniteNext]_vars

(***************************************************************************)
(* File.get_type on its own: the name, the mode and the type of the        *)
(* symlink's target are drawn from bounded sets and get_type is called.    *)
(***************************************************************************)
TypeNames ==
    {"a", "data", "README", "notes.md", "x.txt", "main.c", "tool.py", "Makefile",
     ".git", ".profile", ".x.c"}

\* oct(st_mode)[2:-3] of a directory, a regular file, a symlink and a fifo.
ModeTypes == {"40", "100", "120", "10"}

TypeInit ==
    /\ st_name \in TypeNames
    /\ st_modetype \in ModeTypes
    /\ st_owner \in 0..7
    /\ st_real \in {"none", "directory"}
    /\ classified = [type |-> "none", name |-> ""]
    /\ ProgIdle
    /\ FiniteIdle

\* self.get_permissions(); self.get_type(), lines 99-100
CallGetType ==
    /\ classified.type = "none"
    /\ classified' = get_type(st_name, st_modetype, get_permissions(<<st_owner, 0, 0>>),
                              IF st_modetype = "120" THEN st_real ELSE "none")
    /\ UNCHANGED <<st_name, st_modetype, st_owner, st_real, progVars, finiteVars>>

TypeNext == CallGetType

SpecType == TypeInit /\ [][TypeNext]_vars

(***************************************************************************)
(* Properties of print_finite, checked under SpecFinite.                   *)
(***************************************************************************)
Called == printed.branch # "none"
prelen == Len(arg_prefix)
postlen == Len(arg_postfix)
strlen == Len(arg_var_string)

\* C2: with empty content and available >= len(prefix)+len(postfix)+1,
\* print_finite emits prefix, spaces, postfix; the emitted width is exactly
\* `available` and the postfix ends the output.
C2_EmptyContentFillsBudget ==
    (Called /\ arg_var_string = "" /\ arg_spaceleft >= prelen + postlen + 1) =>
        /\ Len(printed.out) = arg_spaceleft
        /\ \E n \in 1..arg_spaceleft : printed.out = arg_prefix \o Spaces(n) \o arg_postfix
        /\ LastChars(printed.out, postlen) = arg_postfix

C2_Witness ==
    /\ printed.branch = "empty"
    /\ arg_prefix # "" /\ arg_postfix # ""
    /\ arg_spaceleft > prelen + postlen + 1

\* C3: with non-empty content and len(prefix)+len(content)+len(postfix)+4
\* <= available, print_finite emits prefix + " (" + content + ") ", pads with
\* spaces and emits postfix: the whole content is shown verbatim, the width
\* is exactly `available` and the postfix is right-aligned.
C3_FullFitShowsAllContent ==
    (Called /\ arg_var_string # "" /\ prelen + strlen + postlen + 4 <= arg_spaceleft) =>
        /\ printed.out = arg_prefix \o " (" \o arg_var_string \o ") "
                           \o Spaces(arg_spaceleft - (prelen + strlen + postlen + 4))
                           \o arg_postfix
        /\ Len(printed.out) = arg_spaceleft
        /\ LastChars(printed.out, postlen) = arg_postfix
        /\ printed.shown = arg_var_string

C3_Witness ==
    /\ printed.branch = "full"
    /\ arg_var_string # "" /\ arg_prefix # "" /\ arg_postfix # ""
    /\ arg_spaceleft > prelen + strlen + postlen + 4

\* C4: in the truncated-fit branch the content shown is the first
\* available-(len(prefix)+len(postfix)+6) characters of the content, a
\* non-empty strict prefix of it, followed by "..": the output is exactly
\* prefix + " (" + truncated + "..) " + postfix, of width `available`.
C4_TruncatedFit ==
    printed.branch = "truncated" =>
        LET n == arg_spaceleft - (prelen + postlen + 6)
        IN  /\ n >= 1
            /\ n < strlen
            /\ printed.shown = SubSeq(arg_var_string, 1, n)
            /\ printed.out = arg_prefix \o " (" \o SubSeq(arg_var_string, 1, n) \o "..) " \o arg_postfix
            /\ Len(printed.out) = arg_spaceleft

C4_Witness ==
    /\ printed.branch = "truncated"
    /\ Len(printed.shown) >= 2
    /\ arg_prefix # "" /\ arg_postfix # ""

\* C5 as stated: once the empty and full strategies are ruled out, the
\* degraded strategy is chosen exactly when len(prefix)+len(postfix)+6 >
\* available and the truncated one otherwise; at equality with non-empty
\* content prefix + " (..) " + postfix is emitted.
C5_AsStated ==
    (/\ Called
     /\ ~(arg_var_string = "" /\ prelen + postlen + 1 <= arg_spaceleft)
     /\ ~(prelen + strlen + postlen + 4 <= arg_spaceleft)) =>
        /\ printed.branch = "degraded" <=> prelen + postlen + 6 > arg_spaceleft
        /\ printed.branch = "truncated" <=> ~(prelen + postlen + 6 > arg_spaceleft)
        /\ (arg_var_string # "" /\ prelen + postlen + 6 = arg_spaceleft) =>
               printed.out = arg_prefix \o " (..) " \o arg_postfix

\* C5 (amended): once the empty and full strategies are ruled out, the
\* degraded strategy is chosen exactly when len(prefix)+len(postfix)+6 >=
\* available and the truncated one otherwise; at equality with non-empty
\* content the degraded rendering prefix + six spaces + postfix is emitted.
C5_DegradedThreshold ==
    (/\ Called
     /\ ~(arg_var_string = "" /\ prelen + postlen + 1 <= arg_spaceleft)
     /\ ~(prelen + strlen + postlen + 4 <= arg_spaceleft)) =>
        /\ printed.branch = "degraded" <=> prelen + postlen + 6 >= arg_spaceleft
        /\ printed.branch = "truncated" <=> ~(prelen + postlen + 6 >= arg_spaceleft)
        /\ (arg_var_string # "" /\ prelen + postlen + 6 = arg_spaceleft) =>
               printed.out = arg_prefix \o Spaces(6) \o arg_postfix

C5_Witness ==
    /\ printed.branch = "degraded"
    /\ arg_var_string # ""
    /\ prelen + postlen + 6 = arg_spaceleft

\* C6: monotonicity: the call with budget available-1 shows no more content
\* characters than the call with budget available.
C6_Monotone ==
    widerShown # -1 => Len(printed.shown) <= widerShown

C6_Witness ==
    /\ printed.branch = "truncated"
    /\ widerShown = strlen

\* C7 as stated: the degraded strategy emits prefix, padding, postfix when
\* len(prefix)+len(postfix)+1 <= available; else the prefix alone when it
\* fits; else, when the postfix fits, left-padding and the postfix so that
\* the postfix ends at column `available`; else nothing.
C7_AsStated ==
    printed.branch = "degraded" =>
        printed.out =
            IF prelen + postlen + 1 <= arg_spaceleft
            THEN arg_prefix \o Spaces(arg_spaceleft - (prelen + postlen)) \o arg_postfix
            ELSE IF prelen <= arg_spaceleft
            THEN arg_prefix
            ELSE IF postlen <= arg_spaceleft
            THEN Spaces(arg_spaceleft - postlen) \o arg_postfix
            ELSE ""
\* The spaces of the output that the padding loops printed: the arguments
\* drawn hold no space, and the full and truncated renderings add two.
RECURSIVE CountSpaces(_)
CountSpaces(s) ==
    IF s = "" THEN 0
    ELSE (IF SubSeq(s, 1, 1) = " " THEN 1 ELSE 0) + CountSpaces(SubSeq(s, 2, Len(s)))

PaddingEmitted ==
    CountSpaces(printed.out) - (IF printed.branch \in {"full", "truncated"} THEN 2 ELSE 0)

\* C11: for every prefix, postfix, content and integer available (zero and
\* negative included) print_finite takes exactly one branch and emits at
\* most max(available, 0) columns; padding that is emitted has a
\* non-negative count, and with available < 0 and a non-empty prefix
\* nothing is emitted.
C11_NeverExceedsBudget ==
    Called =>
        /\ printed.branch \in {"empty", "full", "degraded", "truncated"}
        /\ Len(printed.out) <= (IF arg_spaceleft > 0 THEN arg_spaceleft ELSE 0)
        /\ PaddingEmitted >= 0
        /\ PaddingEmitted > 0 => (printed.pad >= 0 /\ PaddingEmitted = printed.pad)
        /\ (arg_spaceleft < 0 /\ arg_prefix # "") => printed.out = ""

C11_Witness ==
    /\ Called
    /\ arg_spaceleft < 0
    /\ arg_prefix # "" /\ arg_postfix # "" /\ arg_var_string # ""
    /\ printed.out = ""

(***************************************************************************)
(* Properties of the listing, checked under Spec.                          *)
(***************************************************************************)

\* C1 as stated: the columns emitted for a rendered row (fields, name,
\* separator, badge, symlink arrow and target name, segment) never exceed the
\* terminal column count, except when the budget left for the segment is
\* smaller than len(prefix)+len(postfix).
C1_AsStated ==
    \A i \in 1..Len(rows) :
        (~rows[i].skipped /\ ~rows[i].raised) =>
            \/ Len(rows[i].out) <= rows[i].budget
            \/ \E c \in 1..Len(rows[i].calls) :
                   rows[i].calls[c].spaceleft
                       < Len(rows[i].calls[c].prefix) + Len(rows[i].calls[c].postfix)

\* C8 as stated: no failure on one entry ends the listing: a failed lstat
\* skips the entry, a failed read of a directory or file leaves the row
\* without content, and the program goes on to print the remaining rows.
C8_AsStated ==
    /\ pc # "raised"
    /\ pc = "done" => Len(rows) = Len(files)

\* C9 as stated: a symlink whose resolved target is itself a symlink is
\* left unresolved (no File is nested in it) and its row shows the raw link
\* path after the arrow and nothing more.
C9_AsStated ==
    /\ \A i \in 1..Len(files) :
           (/\ files[i].modetype = "120"
            /\ Exists(files[i].realpath, Cwd)
            /\ Inode(files[i].realpath).modetype = "120") =>
               Len(files[i].realfile) = 0
    /\ \A i \in 1..Len(rows) :
           (/\ ~rows[i].skipped
            /\ rows[i].file.type = "symlink"
            /\ Exists(rows[i].file.realpath, Cwd)
            /\ Inode(rows[i].file.realpath).modetype = "120") =>
               LastChars(rows[i].out, Len(rows[i].file.name) + 4 + Len(rows[i].file.realpath))
                   = rows[i].file.name \o " -> " \o rows[i].file.realpath

(***************************************************************************)
(* Properties of get_type, checked under SpecType.                         *)
(***************************************************************************)

\* The kind the precedence directory > symlink > executable > text, program,
\* makefile > dotfile > file gives.
KindByPrecedence(name, modetype, owner) ==
    IF modetype = "40" THEN "directory"
    ELSE IF modetype = "120" THEN "symlink"
    ELSE IF modetype = "100" /\ owner % 2 = 1 THEN "executable"
    ELSE IF TypeByName(name) # "file" THEN TypeByName(name)
    ELSE IF SubSeq(name, 1, 1) = "." /\ name # ".." THEN "dotfile"
    ELSE "file"

\* C10 as stated: the kind of a file is the highest variant of directory >
\* symlink > executable > text, program, makefile > dotfile > file whose
\* condition holds; a directory, symlink or owner-executable file whose name
\* starts with '.' is not a dotfile.
C10_AsStated ==
    classified.type # "none" =>
        classified.type = KindByPrecedence(st_name, st_modetype, st_owner)
====
